---- MODULE Spec2Model ----
(***************************************************************************)
(* A model of the AYTO engine (src/src/ayto/ayto.py) and of its            *)
(* permutation generator (src/src/ayto/utils.py).                          *)
(*                                                                         *)
(* Representation.  A numpy table is a sequence of rows, a row a sequence  *)
(* of cells; the 0-based cell [r, c] of the code is table[r + 1][c + 1].   *)
(* A Python float that the code obtains as a / b is the reduced fraction   *)
(* of a and b (floating point rounding is not modelled).  A Python tuple   *)
(* (guy, girl) and the JSON list [guy, girl] are records that differ in    *)
(* their field t, as the two differ under Python's ==.                     *)
(***************************************************************************)
EXTENDS Integers, Sequences, FiniteSets, TLC

(* ---------------------------- bounds ----------------------------------- *)

\* largest number of participants per side an engine is constructed with
MaxN == 3
\* largest number of records in history
MaxHistory == 2
\* longest list of pairs passed as matchup, matches or non_matches
MaxMatchupLen == 2
\* beams are drawn from 0..MaxBeams
MaxBeams == 2
MaxQueryNames == 2

\* the number of participants per side of the tests' engine
FixtureN == 5

(* ------------------------ names and inputs ------------------------------ *)

AllGuys == <<"A1", "A2", "A3", "A4", "A5", "A6">>
AllGirls == <<"B1", "B2", "B3", "B4", "B5", "B6">>
\* names that are registered on neither side
UnknownGuy == "XYZ"
UnknownGirl == "ABC"

Range(f) == {f[x] : x \in DOMAIN f}

\* the Python tuple (guy, girl)
Pair(g, w) == [t |-> "tuple", guy |-> g, girl |-> w]

(* ------------------------ src/src/ayto/utils.py ------------------------- *)

\* a cell of np.empty(): never read before it is written
Garbage == 255

RECURSIVE factorial(_)
factorial(k) == IF k <= 1 THEN 1 ELSE k * factorial(k - 1)

\* perms[start_row:end_row, col] = value      (0-based, end exclusive)
SetColumn(perms, start_row, end_row, col, value) ==
    [r \in DOMAIN perms |->
        IF r - 1 >= start_row /\ r - 1 < end_row
        THEN [perms[r] EXCEPT ![col + 1] = value]
        ELSE perms[r]]

\* perms[start_row:end_row, dst:dst+width] = perms[:rows_to_copy, src:src+width]
CopyColumns(perms, start_row, end_row, dst, src, width) ==
    [r \in DOMAIN perms |->
        IF r - 1 >= start_row /\ r - 1 < end_row
        THEN [c \in DOMAIN perms[r] |->
                IF c - 1 >= dst /\ c - 1 < dst + width
                THEN perms[r - start_row][c - dst + src]
                ELSE perms[r][c]]
        ELSE perms[r]]

\* an inner loop body without the copy of the right side
InnerStep_no_right_side(perms, rows_to_copy, i, j) ==
    LET start_row == rows_to_copy * j
        end_row == rows_to_copy * (j + 1)
        splitter == i - j
        p1 == SetColumn(perms, start_row, end_row, splitter, i)
    IN  CopyColumns(p1, start_row, end_row, 0, 0, splitter)

\* an inner loop body that inserts at column j
InnerStep_splitter_j(perms, rows_to_copy, i, j) ==
    LET start_row == rows_to_copy * j
        end_row == rows_to_copy * (j + 1)
        splitter == j
        p1 == SetColumn(perms, start_row, end_row, splitter, i)
        p2 == CopyColumns(p1, start_row, end_row, 0, 0, splitter)
    IN  CopyColumns(p2, start_row, end_row, splitter + 1, splitter, i - splitter)

\* the body of the inner loop for one j
InnerStep(perms, rows_to_copy, i, j) ==
    LET start_row == rows_to_copy * j
        end_row == rows_to_copy * (j + 1)
        splitter == i - j
        p1 == SetColumn(perms, start_row, end_row, splitter, i)
        p2 == CopyColumns(p1, start_row, end_row, 0, 0, splitter)
    IN  CopyColumns(p2, start_row, end_row, splitter + 1, splitter, i - splitter)

RECURSIVE InnerLoop(_, _, _, _)
\* for j in range(from, i + 1)
InnerLoop(perms, rows_to_copy, i, from) ==
    IF from > i THEN perms
    ELSE InnerLoop(InnerStep(perms, rows_to_copy, i, from), rows_to_copy, i, from + 1)

\* the body of the outer loop for one i (rows_to_copy is updated by the caller)
OuterStep(perms, rows_to_copy, i) ==
    InnerLoop(SetColumn(perms, 0, rows_to_copy, i, i), rows_to_copy, i, 1)

RECURSIVE OuterLoop(_, _, _, _)
\* for i in range(from, n)
OuterLoop(perms, rows_to_copy, n, from) ==
    IF from >= n THEN perms
    ELSE OuterLoop(OuterStep(perms, rows_to_copy, from), rows_to_copy * (from + 1), n, from + 1)

\* perms = np.empty((factorial(n), n)); perms[0, 0] = 0
InitialPerms(n) ==
    LET empty == [r \in 1..factorial(n) |-> [c \in 1..n |-> Garbage]]
    IN  [empty EXCEPT ![1][1] = 0]

\* perms once the outer loop has run its iterations for the values 1..i
PermsAfter(n, i) == OuterLoop(InitialPerms(n), 1, i + 1, 1)

faster_permutations(n) == OuterLoop(InitialPerms(n), 1, n, 1)

(* ------------------------ src/src/ayto/ayto.py -------------------------- *)

VARIABLES
    guys,           \* self.guys
    girls,          \* self.girls
    scenarios,      \* self._scenarios
    probabilities,  \* self.probabilities
    history,        \* self.history
    call,           \* the call in progress on the engine, with its arguments
    ret             \* how that call ended: what it returned or raised

vars == <<guys, girls, scenarios, probabilities, history, call, ret>>

\* the engine object
Self == [guys |-> guys, girls |-> girls, scenarios |-> scenarios,
         probabilities |-> probabilities, history |-> history]

\* {name: id_ for id_, name in enumerate(names)}
IdMap(names) ==
    [name \in Range(names) |->
        (CHOOSE k \in DOMAIN names :
            names[k] = name /\ \A m \in DOMAIN names : names[m] = name => m <= k) - 1]

_initialize_maps(gs, ws) == [guy_ids |-> IdMap(gs), girl_ids |-> IdMap(ws)]

guy_ids(self) == _initialize_maps(self.guys, self.girls).guy_ids
girl_ids(self) == _initialize_maps(self.guys, self.girls).girl_ids

\* self.n
n(self) == Len(self.guys)

num_scenarios(self) == Len(self.scenarios)

RECURSIVE GCD(_, _)
GCD(a, b) == IF b = 0 THEN a ELSE GCD(b, a % b)

\* the float a / b, b > 0, as a reduced fraction
Div(a, b) == LET g == GCD(a, b) IN [num |-> a \div g, den |-> b \div g]

\* a selection that returns the selected rows last to first
RECURSIVE Mask_reversed(_, _)
Mask_reversed(table, idx) ==
    IF table = <<>> THEN <<>>
    ELSE Mask_reversed(Tail(table), Tail(idx)) \o (IF Head(idx) THEN <<Head(table)>> ELSE <<>>)

\* the selected rows among rows lo..hi of the table, in the table's order
RECURSIVE MaskRows(_, _, _, _)
MaskRows(table, idx, lo, hi) ==
    IF lo > hi THEN <<>>
    ELSE IF lo = hi THEN (IF idx[lo] THEN <<table[lo]>> ELSE <<>>)
    ELSE LET mid == (lo + hi) \div 2
         IN  MaskRows(table, idx, lo, mid) \o MaskRows(table, idx, mid + 1, hi)

\* table[idx] for a boolean mask idx
Mask(table, idx) == MaskRows(table, idx, 1, Len(table))

\* what a call returns, and what it raises
Returned(value) == [kind |-> "return", value |-> value]
ValueError(msg) == [kind |-> "ValueError", msg |-> msg]

\* the errors numpy raises
TypeError(msg) == [kind |-> "TypeError", msg |-> msg]
IndexError(msg) == [kind |-> "IndexError", msg |-> msg]

\* the call ended in an exception
Raised(r) == r.kind # "return"

UnknownName(name, valid) == ValueError(<<"Unknown name", name, "must be one of", valid>>)
Impossible == ValueError(<<"Impossible scenario provided. Did you enter contradictory data?">>)
InvalidQuery == ValueError(<<"Either matches, non_matches, or both must be provided.">>)

\* the outcome of a method: the engine it leaves and what it returned or raised
Outcome(self, r) == [self |-> self, ret |-> r]

_initialize_scenarios(k) == faster_permutations(k)

\* 1 // self.n in place of 1 / self.n
_initialize_probs_floor(gs, ws) ==
    [guy \in Range(gs) |-> [girl \in Range(ws) |-> Div(1 \div Len(gs), 1)]]

_initialize_probs(gs, ws) ==
    [guy \in Range(gs) |-> [girl \in Range(ws) |-> Div(1, Len(gs))]]

\* AYTO(guys, girls)
AYTO(gs, ws) ==
    [guys |-> gs, girls |-> ws, scenarios |-> _initialize_scenarios(Len(gs)),
     probabilities |-> _initialize_probs(gs, ws), history |-> <<>>]

\* a first loop that looks at the girl of a pair before its guy
RECURSIVE CheckNames_girl_first(_, _, _)
CheckNames_girl_first(self, matchup, p) ==
    IF p > Len(matchup) THEN Returned(0)
    ELSE IF matchup[p].girl \notin DOMAIN girl_ids(self)
         THEN UnknownName(matchup[p].girl, self.girls)
    ELSE IF matchup[p].guy \notin DOMAIN guy_ids(self)
         THEN UnknownName(matchup[p].guy, self.guys)
    ELSE CheckNames_girl_first(self, matchup, p + 1)

\* the first loop of _parse_matchup from position p on: the error it raises, if any
RECURSIVE CheckNames(_, _, _)
CheckNames(self, matchup, p) ==
    IF p > Len(matchup) THEN Returned(0)
    ELSE IF matchup[p].guy \notin DOMAIN guy_ids(self)
         THEN UnknownName(matchup[p].guy, self.guys)
    ELSE IF matchup[p].girl \notin DOMAIN girl_ids(self)
         THEN UnknownName(matchup[p].girl, self.girls)
    ELSE CheckNames(self, matchup, p + 1)

\* the second loop of _parse_matchup from position p on
RECURSIVE AssignInts(_, _, _, _)
AssignInts(self, matchup, p, matchup_ints) ==
    IF p > Len(matchup) THEN matchup_ints
    ELSE AssignInts(self, matchup, p + 1,
            [matchup_ints EXCEPT ![guy_ids(self)[matchup[p].guy] + 1] =
                                    girl_ids(self)[matchup[p].girl]])

\* a _parse_matchup that starts from [0] * self.n
_parse_matchup_zero_fill(self, matchup) ==
    LET checked == CheckNames(self, matchup, 1)
    IN  IF Raised(checked) THEN checked
        ELSE Returned(AssignInts(self, matchup, 1, [c \in 1..n(self) |-> 0]))

_parse_matchup(self, matchup) ==
    LET checked == CheckNames(self, matchup, 1)
    IN  IF Raised(checked) THEN checked
        ELSE Returned(AssignInts(self, matchup, 1, [c \in 1..n(self) |-> -1]))

\* (row == matchup_list).sum()
RowSum(row, matchup_list) ==
    Cardinality({c \in DOMAIN row : row[c] = matchup_list[c]})

\* a _get_matchup_idx that keeps the scenarios with at least beams agreements
_get_matchup_idx_at_least(self, matchup, beams) ==
    LET parsed == _parse_matchup(self, matchup)
    IN  IF Raised(parsed) THEN parsed
        ELSE Returned([r \in DOMAIN self.scenarios |->
                        RowSum(self.scenarios[r], parsed.value) >= beams])

_get_matchup_idx(self, matchup, beams) ==
    LET parsed == _parse_matchup(self, matchup)
    IN  IF Raised(parsed) THEN parsed
        ELSE Returned([r \in DOMAIN self.scenarios |->
                        RowSum(self.scenarios[r], parsed.value) = beams])

\* a _get_truth_booth_idx that reads the girl's column
_get_truth_booth_idx_swapped(self, guy_idx, girl_idx, match) ==
    [r \in DOMAIN self.scenarios |->
        LET idx == self.scenarios[r][girl_idx + 1] = guy_idx
        IN  IF ~match THEN ~idx ELSE idx]

\* a _get_truth_booth_idx that ignores match
_get_truth_booth_idx_no_negation(self, guy_idx, girl_idx, match) ==
    [r \in DOMAIN self.scenarios |-> self.scenarios[r][guy_idx + 1] = girl_idx]

_get_truth_booth_idx(self, guy_idx, girl_idx, match) ==
    [r \in DOMAIN self.scenarios |->
        LET idx == self.scenarios[r][guy_idx + 1] = girl_idx
        IN  IF ~match THEN ~idx ELSE idx]

\* count_dict.get(girl_idx, 0) for the column guy_idx of these_scenarios
CountOf(these_scenarios, guy_idx, girl_idx) ==
    Cardinality({r \in DOMAIN these_scenarios : these_scenarios[r][guy_idx + 1] = girl_idx})

\* a _calculate_probabilities that divides by self.num_scenarios
_calculate_probabilities_of_all(self, these_scenarios) ==
    IF Len(these_scenarios) = 0 THEN Impossible
    ELSE Returned(
            [guy \in Range(self.guys) |-> [girl \in Range(self.girls) |->
                Div(CountOf(these_scenarios, guy_ids(self)[guy], girl_ids(self)[girl]),
                    num_scenarios(self))]])

_calculate_probabilities(self, these_scenarios) ==
    IF Len(these_scenarios) = 0 THEN Impossible
    ELSE Returned(
            [guy \in Range(self.guys) |-> [girl \in Range(self.girls) |->
                Div(CountOf(these_scenarios, guy_ids(self)[guy], girl_ids(self)[girl]),
                    Len(these_scenarios))]])

\* a calculate_probabilities that computes the table and does not keep it
calculate_probabilities_discarding(self) ==
    LET r == _calculate_probabilities(self, self.scenarios)
    IN  IF Raised(r) THEN Outcome(self, r)
        ELSE Outcome(self, Returned(0))

calculate_probabilities(self) ==
    LET r == _calculate_probabilities(self, self.scenarios)
    IN  IF Raised(r) THEN Outcome(self, r)
        ELSE Outcome([self EXCEPT !.probabilities = r.value], Returned(0))

\* a tail that recomputes the table whether or not calc_probs is set
RecordAndReturn_always_calculates(filtered, calc_probs, event) ==
    LET calc == calculate_probabilities(filtered)
    IN  IF Raised(calc.ret) THEN calc
        ELSE LET appended == [calc.self EXCEPT !.history = Append(@, event)]
             IN  Outcome(appended, Returned(num_scenarios(appended)))

\* a tail that puts the record at the front of history
RecordAndReturn_prepending(filtered, calc_probs, event) ==
    LET calc == IF calc_probs THEN calculate_probabilities(filtered)
                ELSE Outcome(filtered, Returned(0))
    IN  IF Raised(calc.ret) THEN calc
        ELSE LET appended == [calc.self EXCEPT !.history = <<event>> \o @]
             IN  Outcome(appended, Returned(num_scenarios(appended)))

\* a tail that reports an emptied candidate set whether or not calc_probs is set
RecordAndReturn_always_checks(filtered, calc_probs, event) ==
    IF filtered.scenarios = <<>> THEN Outcome(filtered, Impossible)
    ELSE LET calc == IF calc_probs THEN calculate_probabilities(filtered)
                     ELSE Outcome(filtered, Returned(0))
             appended == [calc.self EXCEPT !.history = Append(@, event)]
         IN  Outcome(appended, Returned(num_scenarios(appended)))

\* the tail of both apply methods, from `if calc_probs:` on; filtered is the
\* engine with self._scenarios already reassigned
RecordAndReturn(filtered, calc_probs, event) ==
    LET calc == IF calc_probs THEN calculate_probabilities(filtered)
                ELSE Outcome(filtered, Returned(0))
    IN  IF Raised(calc.ret) THEN calc
        ELSE LET appended == [calc.self EXCEPT !.history = Append(@, event)]
             IN  Outcome(appended, Returned(num_scenarios(appended)))

apply_truth_booth(self, guy, girl, match, calc_probs) ==
    IF guy \notin DOMAIN guy_ids(self)
    THEN Outcome(self, UnknownName(guy, self.guys))
    ELSE IF girl \notin DOMAIN girl_ids(self)
    THEN Outcome(self, UnknownName(girl, self.girls))
    ELSE LET idx == _get_truth_booth_idx(self, guy_ids(self)[guy], girl_ids(self)[girl], match)
             filtered == [self EXCEPT !.scenarios = Mask(@, idx)]
         IN  RecordAndReturn(filtered, calc_probs,
                [type |-> "truth_booth", guy |-> guy, girl |-> girl, match |-> match])

apply_matchup_ceremony(self, matchup, beams, calc_probs) ==
    LET idx == _get_matchup_idx(self, matchup, beams)
    IN  IF Raised(idx) THEN Outcome(self, idx)
        ELSE LET filtered == [self EXCEPT !.scenarios = Mask(@, idx.value)]
             IN  RecordAndReturn(filtered, calc_probs,
                    [type |-> "matchup_ceremony", matchup |-> matchup, beams |-> beams])

\* an optional list argument: None, or a list
None == [some |-> FALSE, list |-> <<>>]
Some(list) == [some |-> TRUE, list |-> list]

And(a, b) == [r \in DOMAIN a |-> a[r] /\ b[r]]
Not(a) == [r \in DOMAIN a |-> ~a[r]]

\* np.array([True] * self.num_scenarios) is a boolean array, except that
\* np.array([]) is an empty array of float64
IsBoolArray(self) == num_scenarios(self) > 0

\* idx & other for a float64 idx
BitwiseAndOfFloat == TypeError(<<"ufunc 'bitwise_and' not supported for the input types">>)
\* self._scenarios[idx] for a float64 idx
IndexByFloat == IndexError(<<"arrays used as indices must be of integer (or boolean) type">>)

\* a loop that excludes only the scenarios pairing all the non_matches at once
ExcludeNonMatches_joint(self, non_matches, p, idx) ==
    IF non_matches = <<>> THEN Returned(idx)
    ELSE LET non_match_idx == _get_matchup_idx(self, non_matches, Len(non_matches))
         IN  IF Raised(non_match_idx) THEN non_match_idx
             ELSE IF ~IsBoolArray(self) THEN BitwiseAndOfFloat
             ELSE Returned(And(idx, Not(non_match_idx.value)))

\* the loop over non_matches from position p on: the mask, or the error raised
RECURSIVE ExcludeNonMatches(_, _, _, _)
ExcludeNonMatches(self, non_matches, p, idx) ==
    IF p > Len(non_matches) THEN Returned(idx)
    ELSE LET non_match_idx == _get_matchup_idx(self, <<non_matches[p]>>, 1)
         IN  IF Raised(non_match_idx) THEN non_match_idx
             ELSE IF ~IsBoolArray(self) THEN BitwiseAndOfFloat
             ELSE ExcludeNonMatches(self, non_matches, p + 1, And(idx, Not(non_match_idx.value)))

\* a check that takes an empty list for a missing one
NothingProvided_falsy(matches, non_matches) ==
    matches.list = <<>> /\ non_matches.list = <<>>

\* (matches is None) and (non_matches is None)
NothingProvided(matches, non_matches) == ~matches.some /\ ~non_matches.some

\* what try_partial_scenario returns or raises
Hypothetical(self, matches, non_matches) ==
    IF NothingProvided(matches, non_matches) THEN InvalidQuery
    ELSE
    LET all == [r \in DOMAIN self.scenarios |-> TRUE]
        match_idx == IF matches.list # <<>>
                     THEN _get_matchup_idx(self, matches.list, Len(matches.list))
                     ELSE Returned(all)
    IN  IF Raised(match_idx) THEN match_idx
        ELSE IF matches.list # <<>> /\ ~IsBoolArray(self) THEN BitwiseAndOfFloat
        ELSE
        LET idx == ExcludeNonMatches(self, non_matches.list, 1, And(all, match_idx.value))
        IN  IF Raised(idx) THEN idx
            ELSE IF ~IsBoolArray(self) THEN IndexByFloat
            ELSE
            LET hyp == Mask(self.scenarios, idx.value)
                num_hyp_scenarios == Len(hyp)
                probs == _calculate_probabilities(self, hyp)
            IN  IF Raised(probs) THEN probs
                ELSE Returned([count |-> num_hyp_scenarios,
                               ratio |-> Div(num_hyp_scenarios, num_scenarios(self)),
                               probabilities |-> probs.value])

\* a try_partial_scenario that caches the hypothetical table on the engine
try_partial_scenario_caching(self, matches, non_matches) ==
    LET r == Hypothetical(self, matches, non_matches)
    IN  IF Raised(r) THEN Outcome(self, r)
        ELSE Outcome([self EXCEPT !.probabilities = r.value.probabilities], r)

\* the method assigns to locals only: the engine is the one it was called on
try_partial_scenario(self, matches, non_matches) ==
    Outcome(self, Hypothetical(self, matches, non_matches))

_serialize(self) == [guys |-> self.guys, girls |-> self.girls, history |-> self.history]

\* json.load of what json.dump wrote: every tuple comes back as a list
JsonPair(pair) == [pair EXCEPT !.t = "list"]
JsonEvent(event) ==
    IF event.type = "matchup_ceremony"
    THEN [event EXCEPT !.matchup = [p \in DOMAIN @ |-> JsonPair(@[p])]]
    ELSE event
JsonRoundTrip(data) ==
    [data EXCEPT !.history = [k \in DOMAIN @ |-> JsonEvent(@[k])]]

\* tuple(pair)
Tuple(pair) == [pair EXCEPT !.t = "tuple"]

\* the first loop of load
Retuple(event) ==
    IF event.type = "matchup_ceremony"
    THEN [event EXCEPT !.matchup = [p \in DOMAIN @ |-> Tuple(@[p])]]
    ELSE event

\* the second loop of load from event k on: the instance, or the error raised
RECURSIVE Replay(_, _, _)
Replay(instance, events, k) ==
    IF k > Len(events) THEN Outcome(instance, Returned(0))
    ELSE LET event == events[k]
             applied == IF event.type = "truth_booth"
                        THEN apply_truth_booth(instance, event.guy, event.girl, event.match, FALSE)
                        ELSE IF event.type = "matchup_ceremony"
                        THEN apply_matchup_ceremony(instance, event.matchup, event.beams, FALSE)
                        ELSE Outcome(instance, Returned(0))
         IN  IF Raised(applied.ret) THEN applied
             ELSE Replay(applied.self, events, k + 1)

\* AYTO.load(path) of the file that save(path) wrote for self
load(self) ==
    LET data == JsonRoundTrip(_serialize(self))
        events == [k \in DOMAIN data.history |-> Retuple(data.history[k])]
        replayed == Replay(AYTO(data.guys, data.girls), events, 1)
    IN  IF Raised(replayed.ret) THEN replayed.ret
        ELSE LET calc == calculate_probabilities(replayed.self)
             IN  IF Raised(calc.ret) THEN calc.ret
                 ELSE Returned(calc.self)

(* ------------------------------ the machine ----------------------------- *)

Idle == [op |-> "idle"]

\* the engine after the call, and the call's record
Becomes(outcome, c) ==
    /\ guys' = outcome.self.guys
    /\ girls' = outcome.self.girls
    /\ scenarios' = outcome.self.scenarios
    /\ probabilities' = outcome.self.probabilities
    /\ history' = outcome.self.history
    /\ call' = c
    /\ ret' = outcome.ret

Init ==
    /\ \E k \in 1..MaxN :
        LET fresh == AYTO(SubSeq(AllGuys, 1, k), SubSeq(AllGirls, 1, k))
        IN  /\ guys = fresh.guys
            /\ girls = fresh.girls
            /\ scenarios = fresh.scenarios
            /\ probabilities = fresh.probabilities
            /\ history = fresh.history
    /\ call = [op |-> "__init__"]
    /\ ret = Returned(0)

\* the caller takes the result of the call; the engine waits for the next call
Return ==
    /\ call # Idle
    /\ call' = Idle
    /\ ret' = Returned(0)
    /\ UNCHANGED <<guys, girls, scenarios, probabilities, history>>

ApplyTruthBooth(guy, girl, match, calc_probs) ==
    \E outcome \in {apply_truth_booth(Self, guy, girl, match, calc_probs)} :
        Becomes(outcome, [op |-> "apply_truth_booth", guy |-> guy, girl |-> girl,
                          match |-> match, calc_probs |-> calc_probs])

ApplyMatchupCeremony(matchup, beams, calc_probs) ==
    \E outcome \in {apply_matchup_ceremony(Self, matchup, beams, calc_probs)} :
        Becomes(outcome, [op |-> "apply_matchup_ceremony", matchup |-> matchup,
                          beams |-> beams, calc_probs |-> calc_probs])

TryPartialScenario(matches, non_matches) ==
    \E outcome \in {try_partial_scenario(Self, matches, non_matches)} :
        Becomes(outcome, [op |-> "try_partial_scenario", matches |-> matches,
                          non_matches |-> non_matches])

CalculateProbabilities ==
    \E outcome \in {calculate_probabilities(Self)} :
        Becomes(outcome, [op |-> "calculate_probabilities"])

\* save(path) followed by AYTO.load(path): the engine itself is left alone
SaveLoad ==
    \E loaded \in {load(Self)} :
        Becomes(Outcome(Self, loaded), [op |-> "load"])

(* the arguments the calls are made with *)

GuyArgs == Range(guys) \cup {UnknownGuy}
GirlArgs == Range(girls) \cup {UnknownGirl}
Beams == 0..MaxBeams

Min(a, b) == IF a < b THEN a ELSE b

\* a seating of the first guys in registration order, of any girls; a seat may
\* hold an unregistered guy instead
MatchupArgs ==
    UNION {{[p \in 1..len |-> Pair(gs[p], ws[p])] :
                gs \in {g \in [1..len -> GuyArgs] :
                            \A p \in 1..len : g[p] \in {guys[p], UnknownGuy}},
                ws \in [1..len -> GirlArgs]} :
           len \in 0..Min(MaxMatchupLen, Len(guys))}

\* the hypotheses asked about: none, the empty list, the first registered
\* pair, or a pair with an unregistered guy
PartialArgs ==
    {None, Some(<<>>), Some(<<Pair(guys[1], girls[1])>>), Some(<<Pair(UnknownGuy, girls[1])>>)}

\* the pairs a longer hypothesis is made of: of the first registered names
QueryPairs ==
    {Pair(guys[g], girls[w]) : g \in 1..Min(MaxQueryNames, Len(guys)),
                               w \in 1..Min(MaxQueryNames, Len(girls))}

\* matches or non_matches of a longer hypothesis: None or a list of pairs, a
\* pair or a guy possibly more than once
QueryArgs ==
    {None} \cup {Some(list) : list \in UNION {[1..len -> QueryPairs] : len \in 0..MaxMatchupLen}}

\* the seating that pairs guy i with girl i
FullSeating == [p \in 1..Len(guys) |-> Pair(guys[p], girls[p])]

\* the engine takes a call when no call is in progress
Ready == call = Idle
\* a call that may append to history is made while history is below its bound
MayRecord == Ready /\ Len(history) < MaxHistory

Next ==
    \/ /\ MayRecord
       /\ \E guy \in GuyArgs, girl \in GirlArgs, match \in BOOLEAN, calc_probs \in BOOLEAN :
            ApplyTruthBooth(guy, girl, match, calc_probs)
    \/ /\ MayRecord
       /\ \E matchup \in MatchupArgs, beams \in Beams, calc_probs \in BOOLEAN :
            ApplyMatchupCeremony(matchup, beams, calc_probs)
    \/ /\ Ready
       /\ \E matches \in PartialArgs, non_matches \in PartialArgs :
            TryPartialScenario(matches, non_matches)
    \/ Ready /\ CalculateProbabilities
    \/ Ready /\ SaveLoad
    \/ Return

Spec == Init /\ [][Next]_vars

\* truth booths of registered names that leave the table for later, and between
\* them hypotheses of several pairs
NextQuery ==
    \/ /\ MayRecord
       /\ \E guy \in Range(guys), girl \in Range(girls), match \in BOOLEAN :
            ApplyTruthBooth(guy, girl, match, FALSE)
    \/ /\ Ready
       /\ \E matches \in QueryArgs, non_matches \in QueryArgs :
            TryPartialScenario(matches, non_matches)
    \/ Return

SpecQuery == Init /\ [][NextQuery]_vars

\* an engine of up to as many participants per side as the tests' engine has
InitFixture ==
    /\ \E k \in 1..FixtureN :
        LET fresh == AYTO(SubSeq(AllGuys, 1, k), SubSeq(AllGirls, 1, k))
        IN  /\ guys = fresh.guys
            /\ girls = fresh.girls
            /\ scenarios = fresh.scenarios
            /\ probabilities = fresh.probabilities
            /\ history = fresh.history
    /\ call = [op |-> "__init__"]
    /\ ret = Returned(0)

\* truth booths of the first guy and ceremonies of the full seating
NextFixture ==
    \/ /\ MayRecord
       /\ \E girl \in Range(girls), match \in BOOLEAN, calc_probs \in BOOLEAN :
            ApplyTruthBooth(guys[1], girl, match, calc_probs)
    \/ /\ MayRecord
       /\ \E beams \in 0..Len(guys), calc_probs \in BOOLEAN :
            ApplyMatchupCeremony(FullSeating, beams, calc_probs)
    \/ Ready /\ CalculateProbabilities
    \/ Return

SpecFixture == InitFixture /\ [][NextFixture]_vars

(* ------------------------------ the claims ------------------------------ *)

ApplyOps == {"apply_truth_booth", "apply_matchup_ceremony"}

\* the permutations of 0..k-1, as rows
PermutationsOf(k) ==
    {row \in [1..k -> 0..(k - 1)] : \A c, d \in 1..k : row[c] = row[d] => c = d}

IsPermutation(row, k) == row \in PermutationsOf(k)

\* a is b with some of its elements left out, the others in b's order
RECURSIVE IsSubseq(_, _)
IsSubseq(a, b) ==
    IF a = <<>> THEN TRUE
    ELSE IF b = <<>> THEN FALSE
    ELSE IF Head(a) = Head(b) THEN IsSubseq(Tail(a), Tail(b))
    ELSE IsSubseq(a, Tail(b))

\* the 0-based position of a registered name
IdOf(names, name) == (CHOOSE k \in DOMAIN names : names[k] = name) - 1

\* fractions
RatAdd(p, q) == [num |-> p.num * q.den + q.num * p.den, den |-> p.den * q.den]
RECURSIVE RatSum(_, _)
\* the sum of f[name] over the names of a sequence
RatSum(f, names) ==
    IF names = <<>> THEN [num |-> 0, den |-> 1]
    ELSE RatAdd(f[Head(names)], RatSum(f, Tail(names)))
IsOne(p) == p.den > 0 /\ p.num = p.den
InUnitInterval(p) == p.den > 0 /\ 0 <= p.num /\ p.num <= p.den

\* table[guy][girl]: every guy's row and every girl's column sums to 1
DoublyStochastic(table) ==
    /\ \A g \in Range(guys) : IsOne(RatSum(table[g], girls))
    /\ \A w \in Range(girls) : IsOne(RatSum([g \in Range(guys) |-> table[g][w]], guys))
    /\ \A g \in Range(guys), w \in Range(girls) : InUnitInterval(table[g][w])

\* C3: every step leaves a candidate set that is the previous one with some
\* scenarios left out (never more scenarios, the survivors in the same relative
\* order), and every surviving scenario is a permutation of 0..N-1.
C3_Monotone ==
    [][/\ IsSubseq(scenarios', scenarios)
       /\ Len(scenarios') <= Len(scenarios)
       /\ \A r \in DOMAIN scenarios' : IsPermutation(scenarios'[r], Len(guys))]_vars

\* an apply call has removed some scenarios and left more than one
C3_Witness ==
    /\ call.op \in ApplyOps
    /\ ret.kind = "return"
    /\ Len(scenarios) > 1
    /\ Len(scenarios) < Cardinality(PermutationsOf(Len(guys)))

\* C5: each guy's probabilities over the girls sum to 1, each girl's over the
\* guys sum to 1 and every entry lies in [0, 1]: for the cached table in every
\* reachable state, and for every table try_partial_scenario or load returns.
C5_DoublyStochastic ==
    /\ DoublyStochastic(probabilities)
    /\ (call.op = "try_partial_scenario" /\ ret.kind = "return")
            => DoublyStochastic(ret.value.probabilities)
    /\ (call.op = "load" /\ ret.kind = "return")
            => DoublyStochastic(ret.value.probabilities)

\* a hypothetical table over a proper, non-empty part of a filtered candidate set
C5_Witness ==
    /\ call.op = "try_partial_scenario"
    /\ ret.kind = "return"
    /\ ret.value.count < Len(scenarios)
    /\ history # <<>>
    /\ probabilities # _initialize_probs(guys, girls)

\* C6: a freshly constructed engine of N guys and N girls has N! scenarios, an
\* empty history and the probability 1/N for every (guy, girl).
C6_Fresh ==
    call.op = "__init__" =>
        /\ Len(scenarios) = Cardinality(PermutationsOf(Len(guys)))
        /\ history = <<>>
        /\ \A g \in Range(guys), w \in Range(girls) :
                probabilities[g][w].num * Len(guys) = probabilities[g][w].den

\* a fresh engine of three per side
C6_Witness == call.op = "__init__" /\ Len(guys) >= 3 /\ Len(scenarios) = 6

\* C7: a call of try_partial_scenario, whether it returns or raises, leaves the
\* candidate set, the cached probabilities and the history as they were.
C7_ReadOnly ==
    [][call'.op = "try_partial_scenario"
            => UNCHANGED <<scenarios, probabilities, history>>]_vars

\* try_partial_scenario has returned a table that differs from the cached one
C7_Witness ==
    /\ call.op = "try_partial_scenario"
    /\ ret.kind = "return"
    /\ ret.value.count < Len(scenarios)
    /\ ret.value.probabilities # probabilities

\* every name of an apply call c is registered on its side
NamesResolve(c) ==
    IF c.op = "apply_truth_booth"
    THEN c.guy \in Range(guys) /\ c.girl \in Range(girls)
    ELSE \A p \in DOMAIN c.matchup :
            c.matchup[p].guy \in Range(guys) /\ c.matchup[p].girl \in Range(girls)

\* the record an apply call c is to leave in history
EventOf(c) ==
    IF c.op = "apply_truth_booth"
    THEN [type |-> "truth_booth", guy |-> c.guy, girl |-> c.girl, match |-> c.match]
    ELSE [type |-> "matchup_ceremony", matchup |-> c.matchup, beams |-> c.beams]

\* C1: whenever loading the engine's serialized record yields an engine, that
\* engine has the same surviving scenarios, the same num_scenarios and the
\* same history as the engine that was saved.
C1_Replay ==
    (call.op = "load" /\ ret.kind = "return") =>
        /\ ret.value.scenarios = scenarios
        /\ Len(ret.value.scenarios) = Len(scenarios)
        /\ ret.value.history = history

\* C10: every apply_truth_booth or apply_matchup_ceremony call whose names all
\* resolve appends exactly one record to history, carrying the call's kind and
\* its raw parameters.
C10_OneRecordPerCall ==
    [][(call'.op \in ApplyOps /\ NamesResolve(call'))
            => history' = Append(history, EventOf(call'))]_vars

\* the guy names of a matchup are pairwise distinct
DistinctGuys(matchup) ==
    \A p, q \in DOMAIN matchup : matchup[p].guy = matchup[q].guy => p = q

\* the number of pairs (a, b) of matchup with row[id(a)] = id(b)
Agreements(row, matchup) ==
    Cardinality({p \in DOMAIN matchup :
        row[IdOf(guys, matchup[p].guy) + 1] = IdOf(girls, matchup[p].girl)})

\* the rows of table with exactly beams agreements, in table's order
RECURSIVE WithBeams(_, _, _)
WithBeams(table, matchup, beams) ==
    IF table = <<>> THEN <<>>
    ELSE (IF Agreements(Head(table), matchup) = beams THEN <<Head(table)>> ELSE <<>>)
            \o WithBeams(Tail(table), matchup, beams)

\* C2: apply_matchup_ceremony(matchup, beams), for registered names and
\* distinct guys, keeps exactly the current scenarios s in which the number of
\* pairs (a, b) of matchup with s[id(a)] = id(b) equals beams; the positions of
\* the guys matchup does not name contribute nothing.
C2_CountMatch ==
    [][(/\ call'.op = "apply_matchup_ceremony"
        /\ NamesResolve(call')
        /\ DistinctGuys(call'.matchup))
            => scenarios' = WithBeams(scenarios, call'.matchup, call'.beams)]_vars

\* a ceremony of two pairs among three guys with one beam has left some
\* scenarios and removed others
C2_Witness ==
    /\ call.op = "apply_matchup_ceremony"
    /\ ret.kind = "return"
    /\ Len(guys) = 3
    /\ Len(call.matchup) = 2
    /\ call.beams = 1
    /\ Len(scenarios) > 0
    /\ Len(scenarios) < 6

\* C4: from the engine of any reachable state, apply_truth_booth(guy, girl,
\* match) and apply_matchup_ceremony([(guy, girl)], 1 if match else 0) leave
\* the same candidate set and end the same way (the same count returned, or
\* the same error raised).  The engine of a state in which a call is in
\* progress is the engine of the idle state that follows it.
C4_TruthBoothIsCeremony ==
    Ready =>
        \A g \in Range(guys), w \in Range(girls), match \in BOOLEAN, calc_probs \in BOOLEAN :
            LET booth == apply_truth_booth(Self, g, w, match, calc_probs)
                ceremony == apply_matchup_ceremony(Self, <<Pair(g, w)>>,
                                IF match THEN 1 ELSE 0, calc_probs)
            IN  /\ booth.self.scenarios = ceremony.self.scenarios
                /\ booth.ret = ceremony.ret

\* a truth booth has left some scenarios of a filtered set and removed others
C4_Witness ==
    /\ call.op = "apply_truth_booth"
    /\ ret.kind = "return"
    /\ Len(history) = 2
    /\ ret.value > 0
    /\ ret.value < 4

\* C8: from the engine of any reachable state and for registered a and b,
\* apply_truth_booth(a, b, True) followed by apply_truth_booth(a, b, False)
\* leaves no scenario, and the next recomputation of the probabilities (inside
\* the second call when its calc_probs is true, or the calculate_probabilities
\* call that follows it) raises the impossible-scenario error.
C8_Contradiction ==
    Ready =>
        \A a \in Range(guys), b \in Range(girls), cp1 \in BOOLEAN, cp2 \in BOOLEAN :
            LET first == apply_truth_booth(Self, a, b, TRUE, cp1)
                second == apply_truth_booth(first.self, a, b, FALSE, cp2)
            IN  /\ Len(second.self.scenarios) = 0
                /\ cp2 => second.ret = Impossible
                /\ ~cp2 => calculate_probabilities(second.self).ret = Impossible

\* the second truth booth of a contradicting pair has raised
C8_Witness ==
    /\ call.op = "apply_truth_booth"
    /\ ~call.match
    /\ ret = Impossible
    /\ Len(scenarios) = 0
    /\ Len(history) = 1
    /\ history[1].type = "truth_booth"
    /\ history[1].guy = call.guy
    /\ history[1].girl = call.girl
    /\ history[1].match

\* the names of an apply call c in the order the call is to check them
NamesOf(c) ==
    IF c.op = "apply_truth_booth"
    THEN <<[side |-> "guy", name |-> c.guy], [side |-> "girl", name |-> c.girl]>>
    ELSE [k \in 1..(2 * Len(c.matchup)) |->
            IF k % 2 = 1
            THEN [side |-> "guy", name |-> c.matchup[(k + 1) \div 2].guy]
            ELSE [side |-> "girl", name |-> c.matchup[k \div 2].girl]]

Registered(x) == x.name \in (IF x.side = "guy" THEN Range(guys) ELSE Range(girls))

\* the first name of c that is not registered on its side
FirstOffending(c) ==
    LET names == NamesOf(c)
        k == CHOOSE i \in DOMAIN names :
                /\ ~Registered(names[i])
                /\ \A j \in 1..(i - 1) : Registered(names[j])
    IN  names[k]

\* C9: an apply call given a name that is not registered on its side raises the
\* 'Unknown name' error for the first such name (the guy of a pair before its
\* girl), listing the valid names of that side, and leaves the candidate set,
\* the history and the cached probabilities unchanged.
C9_UnknownName ==
    [][(call'.op \in ApplyOps /\ ~NamesResolve(call'))
            => /\ ret' = UnknownName(FirstOffending(call').name,
                            IF FirstOffending(call').side = "guy" THEN guys ELSE girls)
               /\ UNCHANGED <<scenarios, probabilities, history>>]_vars

\* a ceremony whose second pair holds the unregistered name has been rejected
\* by an engine that has applied an observation before
C9_Witness ==
    /\ call.op = "apply_matchup_ceremony"
    /\ Len(call.matchup) = 2
    /\ call.matchup[1].guy \in Range(guys)
    /\ call.matchup[1].girl \in Range(girls)
    /\ call.matchup[2].guy \in Range(guys)
    /\ call.matchup[2].girl = UnknownGirl
    /\ ret = UnknownName(UnknownGirl, girls)
    /\ history # <<>>

\* the scenario pairs the guy of the pair with its girl
Paired(row, pair) == row[IdOf(guys, pair.guy) + 1] = IdOf(girls, pair.girl)

\* how many of the rows pair every one of matches and none of non_matches
SurvivorCount(rows, matches, non_matches) ==
    Cardinality({r \in DOMAIN rows :
                    /\ \A p \in DOMAIN matches : Paired(rows[r], matches[p])
                    /\ \A p \in DOMAIN non_matches : ~Paired(rows[r], non_matches[p])})

\* C11: the count try_partial_scenario returns is the number of current
\* candidate scenarios that pair every pair of matches and no pair of
\* non_matches, each non-match excluded on its own; and over a non-empty
\* candidate set it does return whenever that number is positive and matches
\* names no guy twice.
C11_WhatIf ==
    [][call'.op = "try_partial_scenario" =>
        LET expected == SurvivorCount(scenarios, call'.matches.list, call'.non_matches.list)
        IN  /\ ret'.kind = "return" => ret'.value.count = expected
            /\ (/\ ~NothingProvided(call'.matches, call'.non_matches)
                /\ DistinctGuys(call'.matches.list)
                /\ expected > 0)
                    => ret'.kind = "return"]_vars

\* a hypothesis of a match and two different non-matches, over a filtered
\* candidate set, that some but not all scenarios satisfy
C11_Witness ==
    /\ call.op = "try_partial_scenario"
    /\ ret.kind = "return"
    /\ Len(call.matches.list) = 1
    /\ Len(call.non_matches.list) = 2
    /\ call.non_matches.list[1] # call.non_matches.list[2]
    /\ history # <<>>
    /\ ret.value.count > 0
    /\ ret.value.count < Len(scenarios)

\* C12 as stated: try_partial_scenario raises the 'must be provided' error
\* whenever each of matches and non_matches is None or an empty list.
C12_EmptyIsInvalid ==
    [][(/\ call'.op = "try_partial_scenario"
        /\ call'.matches.list = <<>>
        /\ call'.non_matches.list = <<>>)
            => ret' = InvalidQuery]_vars

\* C12: try_partial_scenario raises the 'must be provided' error when both
\* matches and non_matches are None, and in no other call: an empty list is a
\* provided one.
C12_InvalidQuery ==
    [][call'.op = "try_partial_scenario" =>
        (ret' = InvalidQuery <=> (call'.matches = None /\ call'.non_matches = None))]_vars

\* the call with neither argument, on an engine with history, has raised the error
C12_Witness ==
    /\ call.op = "try_partial_scenario"
    /\ call.matches = None
    /\ call.non_matches = None
    /\ ret = InvalidQuery
    /\ history # <<>>

\* the fraction p is num / den
IsFraction(p, num, den) == p.den > 0 /\ p.num * den = num * p.den

\* no call has changed the candidate set or the history
Fresh == history = <<>> /\ Len(scenarios) = factorial(Len(guys))

\* the table calculate_probabilities computes once the step is taken
RecomputedTable == calculate_probabilities(Self').self.probabilities

\* the steps of the 5x5 sequence, the ceremony returning last
SequenceSteps(last) ==
    Len(guys) = FixtureN =>
        /\ call.op = "__init__" => num_scenarios(Self) = 120
        /\ (/\ Fresh
            /\ call'.op = "apply_truth_booth"
            /\ call'.guy = "A1" /\ call'.girl = "B1" /\ call'.match)
                => /\ ret' = Returned(24)
                   /\ \A w \in Range(girls) :
                        IsFraction(RecomputedTable["A1"][w], IF w = "B1" THEN 1 ELSE 0, 1)
                   /\ call'.calc_probs => probabilities' = RecomputedTable
        /\ (/\ history = <<[type |-> "truth_booth", guy |-> "A1", girl |-> "B1", match |-> TRUE]>>
            /\ Len(scenarios) = 24
            /\ call'.op = "apply_matchup_ceremony"
            /\ call'.matchup = FullSeating /\ call'.beams = 2)
                => ret' = Returned(last)

\* C13 as stated: on the fresh 5x5 engine num_scenarios is 120, the truth booth
\* (A1, B1, True) returns 24 and gives A1 the distribution [1,0,0,0,0], and the
\* ceremony of the full seating with 2 beams after it returns 20.
C13_SequenceTwenty == [][SequenceSteps(20)]_vars

\* C13: on the fresh 5x5 engine num_scenarios is 120, the truth booth
\* (A1, B1, True) returns 24 and gives A1 the distribution [1,0,0,0,0], and the
\* ceremony of the full seating with 2 beams after it returns 8.
C13_Sequence == [][SequenceSteps(8)]_vars

\* the 5x5 engine after the truth booth and the ceremony
C13_Witness ==
    /\ Len(guys) = FixtureN
    /\ Len(history) = 2
    /\ history[1] = [type |-> "truth_booth", guy |-> "A1", girl |-> "B1", match |-> TRUE]
    /\ call.op = "apply_matchup_ceremony"
    /\ call.matchup = FullSeating
    /\ call.beams = 2
    /\ ret.kind = "return"
    /\ Len(scenarios) = ret.value
    /\ probabilities["A1"]["B1"] = Div(1, 1)

\* the number of permutations of k elements with exactly fixed fixed points
FixedPointPerms(k, fixed) ==
    Cardinality({row \in PermutationsOf(k) :
                    Cardinality({c \in 1..k : row[c] = c - 1}) = fixed})

SameFraction(p, q) == p.den > 0 /\ q.den > 0 /\ p.num * q.den = q.num * p.den

\* one probability for all the pairs of the full seating, one for all the others
SeatingSymmetric(table) ==
    \A p, q, v, x \in DOMAIN guys :
        /\ SameFraction(table[guys[p]][girls[q]], table[guys[q]][girls[p]])
        /\ (p = q) = (v = x)
                => SameFraction(table[guys[p]][girls[q]], table[guys[v]][girls[x]])

\* the tables of the ceremony of the full seating with 2 beams on the 5x5 engine
FiveByFive(table) ==
    \A p, q \in DOMAIN guys :
        IsFraction(table[guys[p]][girls[q]], IF p = q THEN 2 ELSE 3, IF p = q THEN 5 ELSE 20)

\* a ceremony of the full seating called on a fresh engine
FreshSeating == Fresh /\ call'.op = "apply_matchup_ceremony" /\ call'.matchup = FullSeating

\* C14 as stated: the ceremony of the full seating with k beams on a fresh
\* engine returns the number of permutations of N elements with exactly k
\* fixed points, with a recomputed table symmetric under the seating; for N = 5
\* and k = 2 it returns 20 with 0.4 for each seated pair and 0.15 for the others.
C14_AlwaysReturns ==
    [][FreshSeating =>
        LET count == FixedPointPerms(Len(guys), call'.beams)
        IN  /\ ret' = Returned(count)
            /\ SeatingSymmetric(RecomputedTable)
            /\ (Len(guys) = 5 /\ call'.beams = 2) => count = 20 /\ FiveByFive(RecomputedTable)]_vars

\* C14: the ceremony of the full seating with k beams on a fresh engine leaves
\* as many scenarios as there are permutations of N elements with exactly k
\* fixed points and returns that number, except that it raises the
\* impossible-scenario error when the number is 0 and calc_probs is true; when
\* the number is positive the recomputed table is symmetric under the seating;
\* for N = 5 and k = 2 it returns 20 with 0.4 for each seated pair and 0.15 for
\* the others.
C14_FullSeating ==
    [][FreshSeating =>
        LET count == FixedPointPerms(Len(guys), call'.beams)
        IN  /\ Len(scenarios') = count
            /\ ret' = IF count = 0 /\ call'.calc_probs THEN Impossible ELSE Returned(count)
            /\ count > 0 =>
                    /\ SeatingSymmetric(RecomputedTable)
                    /\ call'.calc_probs => probabilities' = RecomputedTable
            /\ (Len(guys) = 5 /\ call'.beams = 2) => count = 20 /\ FiveByFive(RecomputedTable)]_vars

\* the 5x5 engine after the ceremony of the full seating with 2 beams alone
C14_Witness ==
    /\ Len(guys) = 5
    /\ call = [op |-> "apply_matchup_ceremony", matchup |-> FullSeating, beams |-> 2,
               calc_probs |-> TRUE]
    /\ history = <<[type |-> "matchup_ceremony", matchup |-> FullSeating, beams |-> 2]>>
    /\ ret = Returned(20)
    /\ probabilities["A1"]["B1"] = [num |-> 2, den |-> 5]
    /\ probabilities["A1"]["B2"] = [num |-> 3, den |-> 20]

\* C15: on a fresh engine of N >= 2 per side, a truth booth of registered a
\* and b with match true returns (N-1)! and the recomputed table has 1 for
\* (a, b), 0 for every other pair with a or with b and 1/(N-1) for the rest;
\* with match false it returns N! - (N-1)! and the recomputed table has 0 for
\* (a, b).
C15_SingleTruthBooth ==
    [][(/\ Fresh
        /\ Len(guys) >= 2
        /\ call'.op = "apply_truth_booth"
        /\ NamesResolve(call'))
        =>
        LET a == call'.guy
            b == call'.girl
            all == Cardinality(PermutationsOf(Len(guys)))
            fixing == Cardinality(PermutationsOf(Len(guys) - 1))
        IN  /\ call'.calc_probs => probabilities' = RecomputedTable
            /\ IF call'.match
               THEN /\ ret' = Returned(fixing)
                    /\ \A g \in Range(guys), w \in Range(girls) :
                        IF g = a /\ w = b THEN IsFraction(RecomputedTable[g][w], 1, 1)
                        ELSE IF g = a \/ w = b THEN IsFraction(RecomputedTable[g][w], 0, 1)
                        ELSE IsFraction(RecomputedTable[g][w], 1, Len(guys) - 1)
               ELSE /\ ret' = Returned(all - fixing)
                    /\ IsFraction(RecomputedTable[a][b], 0, 1)]_vars

\* a fresh engine of three per side after the truth booth (A2, B3, True)
C15_Witness ==
    /\ Len(guys) = 3
    /\ call = [op |-> "apply_truth_booth", guy |-> "A2", girl |-> "B3", match |-> TRUE,
               calc_probs |-> TRUE]
    /\ history = <<[type |-> "truth_booth", guy |-> "A2", girl |-> "B3", match |-> TRUE]>>
    /\ ret = Returned(2)
    /\ probabilities["A1"]["B1"] = [num |-> 1, den |-> 2]

\* C16: for the N >= 1 an engine is constructed with, faster_permutations(N)
\* is a table of N! rows and N columns, every row a permutation of 0..N-1 and
\* no two rows equal, and it is the table, in the same order, that the
\* constructor's own call of it gave the engine.
C16_Generator ==
    call.op = "__init__" =>
        LET perms == faster_permutations(Len(guys))
        IN  /\ Len(perms) = Cardinality(PermutationsOf(Len(guys)))
            /\ \A r \in DOMAIN perms :
                    /\ Len(perms[r]) = Len(guys)
                    /\ IsPermutation(perms[r], Len(guys))
            /\ \A r, q \in DOMAIN perms : perms[r] = perms[q] => r = q
            /\ {perms[r] : r \in DOMAIN perms} = PermutationsOf(Len(guys))
            /\ scenarios = perms

\* the engine of five per side, just constructed on the generator's 120 rows
C16_Witness ==
    /\ call.op = "__init__"
    /\ Len(guys) = FixtureN
    /\ Len(scenarios) = 120
    /\ scenarios[1] = <<0, 1, 2, 3, 4>>
    /\ scenarios[2] = <<1, 0, 2, 3, 4>>

\* the scenario agrees with a record of history
Satisfies(row, event) ==
    IF event.type = "truth_booth"
    THEN Paired(row, event) = event.match
    ELSE Agreements(row, event.matchup) = event.beams

\* no permutation agrees with every record of history
Contradictory ==
    \A row \in PermutationsOf(Len(guys)) :
        \E k \in DOMAIN history : ~Satisfies(row, history[k])

\* C17: an apply call with calc_probs false never raises the impossible-scenario
\* error; with registered names it returns the number of scenarios it leaves
\* and is recorded in history, also when it empties the candidate set or finds
\* it empty (it then returns 0); and the error is raised only by a computation
\* over an empty set: by calculate_probabilities, alone, within an apply call
\* with calc_probs true or at the end of load, or by try_partial_scenario whose
\* hypothesis no current scenario satisfies.
C17_ReportedAtComputation ==
    [][/\ (call'.op \in ApplyOps /\ ~call'.calc_probs) =>
            /\ ret' # Impossible
            /\ NamesResolve(call') =>
                    /\ ret' = Returned(Len(scenarios'))
                    /\ history' = Append(history, EventOf(call'))
                    /\ scenarios = <<>> => ret' = Returned(0)
       /\ ret' = Impossible =>
            \/ call'.op = "calculate_probabilities" /\ scenarios = <<>>
            \/ call'.op \in ApplyOps /\ call'.calc_probs /\ scenarios' = <<>>
            \/ call'.op = "load" /\ Contradictory
            \/ /\ call'.op = "try_partial_scenario"
               /\ SurvivorCount(scenarios, call'.matches.list, call'.non_matches.list) = 0]_vars

\* an apply call with calc_probs false on an engine that an earlier such call
\* had emptied: it has returned 0 and is the second record of history
C17_Witness ==
    /\ call.op \in ApplyOps
    /\ ~call.calc_probs
    /\ ret = Returned(0)
    /\ Len(history) = 2
    /\ history[2] = EventOf(call)
    /\ \A row \in PermutationsOf(Len(guys)) : ~Satisfies(row, history[1])

\* the rows that pair every one of matches and none of non_matches
Survivors(rows, matches, non_matches) ==
    {r \in DOMAIN rows :
        /\ \A p \in DOMAIN matches : Paired(rows[r], matches[p])
        /\ \A p \in DOMAIN non_matches : ~Paired(rows[r], non_matches[p])}

\* the result of a hypothesis over the current candidate set
ResultValues(result, matches, non_matches) ==
    LET surviving == Survivors(scenarios, matches, non_matches)
    IN  /\ IsFraction(result.ratio, Cardinality(surviving), Len(scenarios))
        /\ \A g \in Range(guys), w \in Range(girls) :
                IsFraction(result.probabilities[g][w],
                           Cardinality({r \in surviving :
                                Paired(scenarios[r], [guy |-> g, girl |-> w])}),
                           Cardinality(surviving))

\* C18: when try_partial_scenario, called with some hypothesis of registered
\* names, returns, its second result is the surviving count over the current
\* num_scenarios and its table is the table over the surviving scenarios; when
\* no current scenario survives the hypothesis it raises the
\* impossible-scenario error.
C18_ResultValues ==
    [][(/\ call'.op = "try_partial_scenario"
        /\ ~NothingProvided(call'.matches, call'.non_matches))
        =>
        /\ ret'.kind = "return"
                => ResultValues(ret'.value, call'.matches.list, call'.non_matches.list)
        /\ Survivors(scenarios, call'.matches.list, call'.non_matches.list) = {}
                => ret' = Impossible]_vars

\* C19 as stated: every apply call whose names all resolve leaves a candidate
\* set strictly smaller than the one before the call.
C19_StrictlySmaller ==
    [][(call'.op \in ApplyOps /\ NamesResolve(call'))
            => Len(scenarios') < Len(scenarios)]_vars

\* C19: every apply call whose names all resolve leaves a candidate set no
\* larger than the one before the call, and a smaller one exactly when some
\* scenario of the set before the call disagrees with the observation.
C19_Shrinks ==
    [][(call'.op \in ApplyOps /\ NamesResolve(call'))
            => /\ Len(scenarios') <= Len(scenarios)
               /\ Len(scenarios') < Len(scenarios)
                    <=> \E r \in DOMAIN scenarios : ~Satisfies(scenarios[r], EventOf(call'))]_vars

\* an observation applied a second time has returned and left scenarios
C19_Witness ==
    /\ call.op \in ApplyOps
    /\ ret.kind = "return"
    /\ Len(history) = 2
    /\ history[1] = history[2]
    /\ Len(scenarios) > 0
    /\ Len(scenarios) < Cardinality(PermutationsOf(Len(guys)))

\* table[g][w] is the number of the rows pairing g with w over the number of rows
TableOf(table, rows) ==
    \A g \in Range(guys), w \in Range(girls) :
        /\ table[g][w].den > 0
        /\ table[g][w].num * Len(rows)
            = table[g][w].den
                * Cardinality({r \in DOMAIN rows : Paired(rows[r], [guy |-> g, girl |-> w])})

\* C20: when calculate_probabilities returns, and when an apply call made with
\* calc_probs true returns, the cached table gives each guy g and girl w the
\* number of current scenarios pairing g with w divided by num_scenarios.
C20_CacheFresh ==
    [][(/\ \/ call'.op = "calculate_probabilities"
           \/ call'.op \in ApplyOps /\ call'.calc_probs
        /\ ret'.kind = "return")
            => /\ scenarios' # <<>>
               /\ TableOf(probabilities', scenarios')]_vars

\* the second of two different observations, applied with calc_probs true, has
\* returned over several scenarios and left a table that is not the uniform one
C20_Witness ==
    /\ call.op \in ApplyOps
    /\ call.calc_probs
    /\ ret.kind = "return"
    /\ Len(history) = 2
    /\ history[1] # history[2]
    /\ TableOf(probabilities, scenarios)
    /\ probabilities # _initialize_probs(guys, girls)
    /\ Len(scenarios) > 1

\* C21: an apply call with calc_probs false, however it ends, leaves the cached
\* table as it was, and calculate_probabilities, whether it returns or raises,
\* leaves the candidate set and the history as they were.
C21_DeferredFrame ==
    [][/\ (call'.op \in ApplyOps /\ ~call'.calc_probs) => probabilities' = probabilities
       /\ call'.op = "calculate_probabilities" =>
            /\ scenarios' = scenarios
            /\ history' = history
            /\ guys' = guys /\ girls' = girls]_vars

\* an apply call with calc_probs false has returned over a smaller, non-empty
\* set, and the cached table is not the table of that set
C21_Witness ==
    /\ call.op \in ApplyOps
    /\ ~call.calc_probs
    /\ ret.kind = "return"
    /\ scenarios # <<>>
    /\ Len(scenarios) < Cardinality(PermutationsOf(Len(guys)))
    /\ ~TableOf(probabilities, scenarios)

\* a is the first Len(a) elements of b
IsPrefix(a, b) == Len(a) <= Len(b) /\ SubSeq(b, 1, Len(a)) = a

\* C22: on every step the history before it is a prefix of the history after
\* it; a step that changes history is an apply_truth_booth or
\* apply_matchup_ceremony call and adds exactly the record of that call, at the
\* end.
C22_AppendOnly ==
    [][/\ IsPrefix(history, history')
       /\ history' # history =>
            /\ call'.op \in ApplyOps
            /\ Len(history') = Len(history) + 1
            /\ history'[Len(history')] = EventOf(call')]_vars

\* two different observations recorded in the order of their calls, the later
\* call just returned
C22_Witness ==
    /\ call.op \in ApplyOps
    /\ ret.kind = "return"
    /\ Len(history) = 2
    /\ history[1] # history[2]
    /\ history[2] = EventOf(call)
    /\ history[1].type # history[2].type

\* the 0-based cell [r, c] of a table
Cell(table, r, c) == table[r + 1][c + 1]

\* row r of the table restricted to its columns 0..(width - 1)
Restricted(table, r, width) == [c \in 1..width |-> table[r + 1][c]]

\* the rows of block j of after are the first size rows of before with the
\* value i inserted at column col
InsertedAt(before, after, size, i, j, col) ==
    \A r \in 0..(size - 1) :
        /\ Cell(after, j * size + r, col) = i
        /\ \A c \in 0..(col - 1) : Cell(after, j * size + r, c) = Cell(before, r, c)
        /\ \A c \in col..(i - 1) : Cell(after, j * size + r, c + 1) = Cell(before, r, c)

\* the loop invariant of faster_permutations(k) after the outer iteration for i
LoopInvariant(k, i) ==
    LET before == PermsAfter(k, i - 1)
        after == PermsAfter(k, i)
        size == Cardinality(PermutationsOf(i))
        rows == Cardinality(PermutationsOf(i + 1))
        InsertionColumns(j) == {col \in 0..i : InsertedAt(before, after, size, i, j, col)}
    IN  /\ {Restricted(after, r, i + 1) : r \in 0..(rows - 1)} = PermutationsOf(i + 1)
        /\ \A r, q \in 0..(rows - 1) :
                Restricted(after, r, i + 1) = Restricted(after, q, i + 1) => r = q
        /\ \A j \in 0..i : Cardinality(InsertionColumns(j)) = 1
        /\ \A col \in 0..i :
                Cardinality({j \in 0..i : col \in InsertionColumns(j)}) = 1

\* C23: in faster_permutations(N), for the N an engine is constructed with,
\* after the outer iteration for every value i with 1 <= i < N the first (i+1)!
\* rows restricted to columns 0..i are exactly the (i+1)! distinct permutations
\* of 0..i; block j of them, for j in 0..i, is the previous i! rows with i
\* inserted at one column, the columns before it copied and the columns from
\* it on shifted right by one; and each column 0..i is the insertion column of
\* exactly one block.
C23_LoopInvariant ==
    call.op = "__init__" =>
        \A i \in 1..(Len(guys) - 1) : LoopInvariant(Len(guys), i)

\* the generator for five per side after its iteration for the value 2: six
\* rows are built, the seventh is not yet written
C23_Witness ==
    /\ call.op = "__init__"
    /\ Len(guys) = FixtureN
    /\ Restricted(PermsAfter(FixtureN, 2), 5, 3) = <<2, 1, 0>>
    /\ Cell(PermsAfter(FixtureN, 2), 6, 0) = Garbage
    /\ Cell(PermsAfter(FixtureN, 2), 0, 3) = Garbage

====
